---- MODULE Spec2Model ----
(***************************************************************************)
(* Model of ip_refresh.py: the address validator (IPValidator), the single *)
(* source fetch (IPFetcher.fetch_ips_from_url), the concurrent aggregation *)
(* (IPFetcher.fetch_all_ips), the file manager (IPFileManager) and the     *)
(* orchestrator (IPRefreshTool.run, main).                                 *)
(*                                                                         *)
(* Text is a sequence of one-character strings.  An address is the text    *)
(* the pattern matched (the program keeps addresses as strings); its       *)
(* octets are obtained by parsing, as the program does.                    *)
(* The standard library is modelled as CPython 3.11 behaves: ipaddress     *)
(* rejects leading zeros, and is_global is "not in 100.64.0.0/10 and not   *)
(* is_private" over the module's table of private networks.                *)
(***************************************************************************)
EXTENDS Integers, Sequences, FiniteSets, TLC

(***************************************************************************)
(* Characters and text                                                     *)
(***************************************************************************)
Digits == <<"0", "1", "2", "3", "4", "5", "6", "7", "8", "9">>

IsDigit(c) == \E i \in 1..10 : Digits[i] = c

DigitVal(c) == (CHOOSE i \in 1..10 : Digits[i] = c) - 1

\* \w of the re module, over the characters the model uses
IsWordChar(c) == IsDigit(c) \/ c \in {"a", "_"}

NL == "\n"

RECURSIVE Concat(_)
Concat(ss) == IF ss = <<>> THEN <<>> ELSE Head(ss) \o Concat(Tail(ss))

\* str.split(sep): the pieces between the separators, empty pieces kept
RECURSIVE SplitFrom(_, _, _, _)
SplitFrom(s, sep, i, cur) ==
    IF i > Len(s) THEN <<cur>>
    ELSE IF s[i] = sep THEN <<cur>> \o SplitFrom(s, sep, i + 1, <<>>)
    ELSE SplitFrom(s, sep, i + 1, Append(cur, s[i]))

Split(s, sep) == SplitFrom(s, sep, 1, <<>>)

\* int(s) for a non-empty run of decimal digits
RECURSIVE DecInt(_)
DecInt(s) ==
    IF s = <<>> THEN 0
    ELSE 10 * DecInt(SubSeq(s, 1, Len(s) - 1)) + DigitVal(s[Len(s)])

AllDigits(s) == \A i \in 1..Len(s) : IsDigit(s[i])

(***************************************************************************)
(* IPValidator.IP_PATTERN and re.findall                                   *)
(***************************************************************************)
\* \b at the gap after position p (0 = before the first character)
WordBoundary(text, p) ==
    LET before == p >= 1 /\ p <= Len(text) /\ IsWordChar(text[p])
        after  == p + 1 <= Len(text) /\ IsWordChar(text[p + 1])
    IN  before # after

\* (?:25[0-5]|2[0-4][0-9]|[01]?[0-9][0-9]?) : the lengths n for which
\* text[i .. i+n-1] matches one of the alternatives
OctetLens(text, i) ==
    {n \in 1..3 :
        /\ i + n - 1 <= Len(text)
        /\ \A k \in i..(i + n - 1) : IsDigit(text[k])
        /\ n = 3 =>
             \/ text[i] = "2" /\ text[i + 1] = "5" /\ DigitVal(text[i + 2]) <= 5
             \/ text[i] = "2" /\ DigitVal(text[i + 1]) <= 4
             \/ text[i] \in {"0", "1"}}

\* the positions reached from i by k repetitions of (?:octet\.)
RECURSIVE AfterGroups(_, _, _)
AfterGroups(text, i, k) ==
    IF k = 0 THEN {i}
    ELSE UNION {AfterGroups(text, i + n + 1, k - 1) :
                  n \in {m \in OctetLens(text, i) :
                           i + m <= Len(text) /\ text[i + m] = "."}}

\* the positions just after a match of the whole pattern starting at i
MatchEnds(text, i) ==
    IF ~WordBoundary(text, i - 1) THEN {}
    ELSE UNION {{p + n : n \in {m \in OctetLens(text, p) :
                                  WordBoundary(text, p + m - 1)}} :
                  p \in AfterGroups(text, i, 3)}

SetMax(S) == CHOOSE x \in S : \A y \in S : y <= x

\* re.findall: leftmost matches, scanning on from the end of each match
RECURSIVE FindAllFrom(_, _)
FindAllFrom(text, pos) ==
    IF pos > Len(text) THEN <<>>
    ELSE LET ends == MatchEnds(text, pos)
         IN  IF ends = {} THEN FindAllFrom(text, pos + 1)
             ELSE <<SubSeq(text, pos, SetMax(ends) - 1)>>
                    \o FindAllFrom(text, SetMax(ends))

findall(text) == FindAllFrom(text, 1)

(***************************************************************************)
(* ipaddress.IPv4Address                                                   *)
(***************************************************************************)
\* IPv4Address._parse_octet accepts the piece
OctetOk(s) ==
    /\ s # <<>>
    /\ AllDigits(s)
    /\ Len(s) <= 3
    /\ ~(s # <<"0">> /\ s[1] = "0")
    /\ DecInt(s) <= 255

\* IPv4Address(ip) does not raise AddressValueError
is_valid_ip(ip) ==
    LET parts == Split(ip, ".")
    IN  Len(parts) = 4 /\ \A k \in 1..4 : OctetOk(parts[k])

\* tuple(map(int, ip.split('.')))
Octets(ip) ==
    LET parts == Split(ip, ".")
    IN  [k \in 1..Len(parts) |-> DecInt(parts[k])]

Pow2(n) == IF n = 0 THEN 1 ELSE IF n = 1 THEN 2 ELSE IF n = 2 THEN 4
           ELSE IF n = 3 THEN 8 ELSE IF n = 4 THEN 16 ELSE IF n = 5 THEN 32
           ELSE IF n = 6 THEN 64 ELSE IF n = 7 THEN 128 ELSE 256

\* address o (four octets) lies in the network net/prefix
InNet(o, net, prefix) ==
    \A k \in 1..4 :
        LET bits == IF prefix >= 8 * k THEN 8
                    ELSE IF prefix <= 8 * (k - 1) THEN 0
                    ELSE prefix - 8 * (k - 1)
        IN  o[k] \div Pow2(8 - bits) = net[k] \div Pow2(8 - bits)

\* ipaddress._IPv4Constants._private_networks
PrivateNetworks ==
    { <<<<0, 0, 0, 0>>, 8>>,        <<<<10, 0, 0, 0>>, 8>>,
      <<<<127, 0, 0, 0>>, 8>>,      <<<<169, 254, 0, 0>>, 16>>,
      <<<<172, 16, 0, 0>>, 12>>,    <<<<192, 0, 0, 0>>, 29>>,
      <<<<192, 0, 0, 170>>, 31>>,   <<<<192, 0, 2, 0>>, 24>>,
      <<<<192, 168, 0, 0>>, 16>>,   <<<<198, 18, 0, 0>>, 15>>,
      <<<<198, 51, 100, 0>>, 24>>,  <<<<203, 0, 113, 0>>, 24>>,
      <<<<240, 0, 0, 0>>, 4>>,      <<<<255, 255, 255, 255>>, 32>> }

is_private(o) == \E n \in PrivateNetworks : InNet(o, n[1], n[2])

is_global(o) == ~InNet(o, <<100, 64, 0, 0>>, 10) /\ ~is_private(o)

is_public_ip(ip) == is_valid_ip(ip) /\ is_global(Octets(ip))

\* IPValidator.extract_ips_from_text
extract_ips_from_text(text) ==
    LET potential_ips == findall(text)
    IN  {potential_ips[k] : k \in {j \in 1..Len(potential_ips) :
            is_valid_ip(potential_ips[j]) /\ is_public_ip(potential_ips[j])}}


(***************************************************************************)
(* Bounds and inputs                                                       *)
(***************************************************************************)
\* longest configured source list
MaxUrls == 2

\* largest configured max_workers
MaxWorkers == 2

\* decimal rendering of 0..999, used to write the input texts below
Str(n) ==
    IF n < 10 THEN <<Digits[n + 1]>>
    ELSE IF n < 100 THEN <<Digits[(n \div 10) + 1], Digits[(n % 10) + 1]>>
    ELSE <<Digits[(n \div 100) + 1], Digits[((n \div 10) % 10) + 1],
           Digits[(n % 10) + 1]>>

Dotted(o) == Str(o[1]) \o <<".">> \o Str(o[2]) \o <<".">> \o Str(o[3])
               \o <<".">> \o Str(o[4])

\* response bodies served by the simulated sources
BodyA == Dotted(<<1, 2, 3, 4>>) \o <<" ">> \o Dotted(<<8, 8, 8, 8>>)
BodyB == Dotted(<<8, 8, 8, 8>>) \o <<" ">> \o Dotted(<<9, 9, 9, 9>>)
BodyJunk == Dotted(<<300, 1, 1, 1>>) \o <<" ">> \o Dotted(<<192, 168, 1, 1>>)
BodyMulticast == Dotted(<<224, 0, 0, 1>>) \o <<" ">> \o Dotted(<<2, 2, 2, 10>>)
               \o <<" ">> \o Dotted(<<2, 2, 2, 2>>)

(***************************************************************************)
(* What one source does when it is asked: session.get raises (getExc), or  *)
(* returns a response with a status and a body; reading the body or        *)
(* extracting from it may raise too (textExc).                             *)
(***************************************************************************)
NoExc == "none"

Response(getExc, status, textExc, body) ==
    [getExc |-> getExc, status |-> status, textExc |-> textExc, body |-> body]

GetRaises(exc) == Response(exc, 0, NoExc, <<>>)

Served(status, body) == Response(NoExc, status, NoExc, body)

\* "except handler" catches exc: the class itself or one derived from it
\* (requests.exceptions: Timeout, ConnectionError and HTTPError derive from
\* RequestException, ConnectTimeout from both ConnectionError and Timeout;
\* RequestException derives from Exception)
Catches(handler, exc) ==
    \/ handler = exc
    \/ handler \in {"Timeout", "ConnectionError"} /\ exc = "ConnectTimeout"
    \/ handler = "RequestException"
         /\ exc \in {"Timeout", "ConnectionError", "ConnectTimeout",
                     "HTTPError"}
    \/ handler = "Exception"
         /\ exc \in {"Timeout", "ConnectionError", "ConnectTimeout",
                     "HTTPError", "RequestException"}

\* mutant of raise_for_status: the status is never looked at
raise_for_status_skipped(status) == NoExc

\* Response.raise_for_status raises for 400 <= status < 600
raise_for_status(status) ==
    IF 400 <= status /\ status < 600 THEN "HTTPError" ELSE NoExc

\* mutant of FetchHandlers: no final "except Exception"
FetchHandlers_requests_only ==
    <<"Timeout", "ConnectionError", "HTTPError", "RequestException">>

\* the except clauses of fetch_ips_from_url, in order
FetchHandlers ==
    <<"Timeout", "ConnectionError", "HTTPError", "RequestException",
      "Exception">>

\* the exception raised inside the try block of fetch_ips_from_url
FetchTryRaises(r) ==
    IF r.getExc # NoExc THEN r.getExc
    ELSE IF raise_for_status(r.status) # NoExc THEN raise_for_status(r.status)
    ELSE r.textExc

\* a call of self.logger.info or self.logger.error; count is the number in
\* the message of the success line, -1 in the other messages
LogCall(level, msg, count) == [level |-> level, msg |-> msg, count |-> count]

\* the message logged by each except clause of fetch_ips_from_url, in order
HandlerMsg ==
    <<"timeout", "connection_error", "http_error", "request_error",
      "unknown_error">>

\* mutant of fetch_ips_from_url: the outcome is also logged in a "finally"
fetch_ips_from_url_finally(r) ==
    LET exc == FetchTryRaises(r)
        hs  == {h \in 1..Len(FetchHandlers) : Catches(FetchHandlers[h], exc)}
        h1  == CHOOSE h \in hs : \A g \in hs : h <= g
        end == LogCall("INFO", "success", 0)
    IN  IF exc = NoExc
        THEN [raised |-> FALSE, handler |-> 0,
              ips |-> extract_ips_from_text(r.body),
              log |-> <<LogCall("INFO", "start", -1),
                        LogCall("INFO", "success",
                                Cardinality(extract_ips_from_text(r.body))),
                        end>>]
        ELSE IF hs = {}
        THEN [raised |-> TRUE, handler |-> 0, ips |-> {},
              log |-> <<LogCall("INFO", "start", -1), end>>]
        ELSE [raised |-> FALSE, handler |-> h1, ips |-> {},
              log |-> <<LogCall("INFO", "start", -1),
                        LogCall("ERROR", HandlerMsg[h1], -1), end>>]

\* IPFetcher.fetch_ips_from_url: raised = an exception leaves the function,
\* handler = the except clause that ran (0: none), log = the logging calls
\* it made, in order
fetch_ips_from_url(r) ==
    LET exc == FetchTryRaises(r)
        hs  == {h \in 1..Len(FetchHandlers) : Catches(FetchHandlers[h], exc)}
        h1  == CHOOSE h \in hs : \A g \in hs : h <= g
    IN  IF exc = NoExc
        THEN LET ips == extract_ips_from_text(r.body)
             IN  [raised |-> FALSE, handler |-> 0, ips |-> ips,
                  log |-> <<LogCall("INFO", "start", -1),
                            LogCall("INFO", "success", Cardinality(ips))>>]
        ELSE IF hs = {}
        THEN [raised |-> TRUE, handler |-> 0, ips |-> {},
              log |-> <<LogCall("INFO", "start", -1)>>]
        ELSE [raised |-> FALSE, handler |-> h1, ips |-> {},
              log |-> <<LogCall("INFO", "start", -1),
                        LogCall("ERROR", HandlerMsg[h1], -1)>>]

\* logging.DEBUG .. logging.CRITICAL
LevelNo(level) ==
    CASE level = "DEBUG"    -> 10
      [] level = "INFO"     -> 20
      [] level = "WARNING"  -> 30
      [] level = "ERROR"    -> 40
      [] level = "CRITICAL" -> 50

\* the lines a logger configured with basicConfig(level=level) emits for a
\* sequence of logging calls
Emitted(log, level) ==
    SelectSeq(log, LAMBDA c : LevelNo(c.level) >= LevelNo(level))


(***************************************************************************)
(* IPFileManager: files, backup_existing_file, save_ips                    *)
(***************************************************************************)
NoFile == [exists |-> FALSE, data |-> <<>>]

File(data) == [exists |-> TRUE, data |-> data]

\* Python's ordering of tuples of integers
RECURSIVE TupleLess(_, _)
TupleLess(a, b) ==
    IF a = <<>> THEN b # <<>>
    ELSE IF b = <<>> THEN FALSE
    ELSE IF Head(a) # Head(b) THEN Head(a) < Head(b)
    ELSE TupleLess(Tail(a), Tail(b))

\* ord(c) for the characters of an address
CharCode(c) == IF c = "." THEN 46 ELSE 48 + DigitVal(c)

\* mutant of SortKey: sorted(ips) without the key, the order of the strings
SortKey_lexical(ip) == [k \in 1..Len(ip) |-> CharCode(ip[k])]

\* key=lambda ip: tuple(map(int, ip.split('.')))
SortKey(ip) == Octets(ip)

\* sorted(ips, key=...): each key is computed once, then the list is ordered
RECURSIVE SortedRec(_, _)
SortedRec(ips, key) ==
    IF ips = {} THEN <<>>
    ELSE LET m == CHOOSE x \in ips : \A y \in ips : ~TupleLess(key[y], key[x])
         IN  <<m>> \o SortedRec(ips \ {m}, key)

sorted_by_key(ips) == SortedRec(ips, [x \in ips |-> SortKey(x)])

\* f.write(f"{ip}\n") for the first k addresses of the sorted list
WrittenLines(sorted_ips, k) ==
    Concat([j \in 1..k |-> sorted_ips[j] \o <<NL>>])

\* what the operating system does to save_ips; k lines reach the file
\* before a failure during the writes
SaveIO(ips) ==
    {[kind |-> "ok", k |-> Cardinality(ips)],
     [kind |-> "oserror_before_open", k |-> 0]}
      \cup {[kind |-> x, k |-> j] :
              x \in {"oserror_write", "interrupt"},
              j \in 0..(Cardinality(ips) - 1)}

\* the try block of save_ips under io: ret is the returned flag, exc the
\* exception that leaves the function, file the output file afterwards
SaveOutcome(sorted_ips, file, io) ==
    CASE io.kind = "ok" ->
           [io |-> io.kind, ret |-> TRUE, exc |-> NoExc,
            file |-> File(WrittenLines(sorted_ips, Len(sorted_ips)))]
      [] io.kind = "oserror_before_open" ->
           [io |-> io.kind, ret |-> FALSE, exc |-> NoExc, file |-> file]
      [] io.kind = "oserror_write" ->
           [io |-> io.kind, ret |-> FALSE, exc |-> NoExc,
            file |-> File(WrittenLines(sorted_ips, io.k))]
      [] io.kind = "interrupt" ->
           [io |-> io.kind, ret |-> FALSE, exc |-> "KeyboardInterrupt",
            file |-> File(WrittenLines(sorted_ips, io.k))]

\* IPFileManager.save_ips: the outcomes the operating system allows
save_ips(ips, file) ==
    IF ips = {}
    THEN {[io |-> "none", ret |-> FALSE, exc |-> NoExc, file |-> file]}
    ELSE LET sorted_ips == sorted_by_key(ips)
         IN  {SaveOutcome(sorted_ips, file, io) : io \in SaveIO(ips)}

\* what the operating system does to backup_existing_file
BackupIO == {"ok", "rename_oserror", "stat_oserror"}

\* mutant of backup_existing_file: no "except OSError" around the rename
backup_existing_file_uncaught(out, bak, io) ==
    IF io = "stat_oserror"
    THEN [ret |-> "none", exc |-> "OSError", out |-> out, bak |-> bak]
    ELSE IF ~out.exists
    THEN [ret |-> "none", exc |-> NoExc, out |-> out, bak |-> bak]
    ELSE IF io = "ok"
    THEN [ret |-> "bak", exc |-> NoExc, out |-> NoFile, bak |-> out]
    ELSE [ret |-> "none", exc |-> "OSError", out |-> out, bak |-> bak]

\* IPFileManager.backup_existing_file: ret is the returned path ("bak") or
\* None ("none"); exc the exception that leaves the function
backup_existing_file(out, bak, io) ==
    IF io = "stat_oserror"
    THEN [ret |-> "none", exc |-> "OSError", out |-> out, bak |-> bak]
    ELSE IF ~out.exists
    THEN [ret |-> "none", exc |-> NoExc, out |-> out, bak |-> bak]
    ELSE IF io = "ok"
    THEN [ret |-> "bak", exc |-> NoExc, out |-> NoFile, bak |-> out]
    ELSE [ret |-> "none", exc |-> NoExc, out |-> out, bak |-> bak]

\* the lines of a file, as f.readlines() would give them without the "\n"
FileLines(data) ==
    LET parts == Split(data, NL)
    IN  SubSeq(parts, 1, Len(parts) - 1)

\* files left by earlier runs
OldOutput == File(WrittenLines(<<Dotted(<<1, 1, 1, 1>>)>>, 1))

OldBackup == File(WrittenLines(<<Dotted(<<1, 0, 0, 1>>)>>, 1))


(***************************************************************************)
(* The run: main, IPRefreshTool.run, IPFetcher.fetch_all_ips               *)
(***************************************************************************)
\* the sources a configuration may list, and what each answers
Sources == {"s_timeout", "s_404", "s_a", "s_b", "s_junk", "s_multicast"}

\* further sources, each configured alone: the remaining ways a GET ends
EdgeSources ==
    {"e_connect_timeout", "e_connection", "e_request", "e_get_other",
     "e_503", "e_300", "e_text_other"}

Answer(url) ==
    CASE url = "s_timeout"   -> GetRaises("Timeout")
      [] url = "s_404"       -> Served(404, BodyA)
      [] url = "s_a"         -> Served(200, BodyA)
      [] url = "s_b"         -> Served(200, BodyB)
      [] url = "s_junk"      -> Served(200, BodyJunk)
      [] url = "s_multicast" -> Served(200, BodyMulticast)
      [] url = "e_connect_timeout" -> GetRaises("ConnectTimeout")
      [] url = "e_connection"      -> GetRaises("ConnectionError")
      [] url = "e_request"         -> GetRaises("RequestException")
      [] url = "e_get_other"       -> GetRaises("Exception")
      [] url = "e_503"             -> Served(503, BodyB)
      [] url = "e_300"             -> Served(300, BodyB)
      [] url = "e_text_other"      -> Response(NoExc, 200, "Exception", BodyA)

\* the source lists a configuration may hold
UrlLists ==
    UNION {[1..n -> Sources] : n \in 0..MaxUrls}
      \cup [1..1 -> EdgeSources]

\* what every source answers
AnswerOf == [u \in Sources \cup EdgeSources |-> Answer(u)]

\* how the call fetch_ips_from_url(url) ends, for every source
FetchOf == [u \in Sources \cup EdgeSources |-> fetch_ips_from_url(AnswerOf[u])]

NoResult == [raised |-> FALSE, handler |-> 0, ips |-> {}, log |-> <<>>]

(***************************************************************************)
(* IPRefreshConfig: the configuration file and _load_config                *)
(***************************************************************************)
\* the values of 'log_level' a configuration may hold
LogLevels == {"INFO", "WARNING", "CRITICAL"}

\* default_config, with as many urls and workers as the bounds allow
DefaultUrls == [i \in 1..MaxUrls |-> IF i = 1 THEN "s_a" ELSE "s_timeout"]

default_config ==
    [urls |-> DefaultUrls, max_workers |-> MaxWorkers, log_level |-> "INFO"]

\* a configuration file: absent, or present with a content that open() or
\* json.load() treats in one of five ways; value is what json.load returns
ConfigFile(kind, value) == [kind |-> kind, value |-> value]

\* the JSON objects a user may have written: all three keys, or none ("{}");
\* a log level other than INFO comes with a single url
UserObjects ==
    {[urls |-> u, max_workers |-> m, log_level |-> "INFO"] :
        u \in UrlLists, m \in 1..MaxWorkers}
      \cup {[urls |-> u, max_workers |-> 1, log_level |-> l] :
              u \in [1..1 -> Sources \cup EdgeSources],
              l \in LogLevels \ {"INFO"}}
      \cup {<<>>}

BrokenKinds == {"unreadable", "undecodable", "bad_syntax", "not_object"}

ConfigFiles ==
    {ConfigFile(k, <<>>) : k \in {"absent"} \cup BrokenKinds}
      \cup {ConfigFile("object", v) : v \in UserObjects}

\* the exception raised inside the try block of _load_config: open() raises
\* OSError, f.read() inside json.load raises UnicodeDecodeError, the parser
\* raises JSONDecodeError, and {**default, **config} raises TypeError when
\* config is no mapping
LoadTryRaises(f) ==
    CASE f.kind = "unreadable"  -> "OSError"
      [] f.kind = "undecodable" -> "UnicodeDecodeError"
      [] f.kind = "bad_syntax"  -> "JSONDecodeError"
      [] f.kind = "not_object"  -> "TypeError"
      [] OTHER                  -> NoExc

\* except (json.JSONDecodeError, IOError)
LoadHandlers == {"JSONDecodeError", "OSError"}

\* {**self.default_config, **config}
MergeConfig(default, config) ==
    [k \in DOMAIN default |->
        IF k \in DOMAIN config THEN config[k] ELSE default[k]]

\* IPRefreshConfig._load_config: ret tells which return statement ran, exc
\* is the exception that leaves the function
load_config(f) ==
    IF f.kind = "absent"
    THEN [ret |-> "defaults", exc |-> NoExc, config |-> default_config]
    ELSE LET exc == LoadTryRaises(f)
         IN  IF exc = NoExc
             THEN [ret |-> "merged", exc |-> NoExc,
                   config |-> MergeConfig(default_config, f.value)]
             ELSE IF exc \in LoadHandlers
             THEN [ret |-> "defaults", exc |-> NoExc, config |-> default_config]
             ELSE [ret |-> "raised", exc |-> exc, config |-> default_config]

\* what the operating system does to _setup_logging, which opens the log file
SetupIO == {"ok", "logfile_oserror"}

VARIABLES
    pc,           \* where main / run is
    exitCode,     \* the argument of exit(), -1 while the process runs
    cfgFile,      \* the configuration file
    configRet,    \* how _load_config ended ("unset" before)
    urls,         \* config['urls']
    max_workers,  \* config['max_workers']
    log_level,    \* config['log_level'] ("unset" before the config is loaded)
    task,         \* task[i]: state of the future of the i-th url
    calls,        \* calls[i]: how often fetch_ips_from_url was called for it
    result,       \* result[i]: outcome of the finished fetch of the i-th url
    all_ips,      \* the accumulator of fetch_all_ips
    outFile,      \* the file at the output path
    bakFile,      \* the file at the backup path
    out0,         \* the output file when the run began
    bak0,         \* the backup file when the run began
    backupRet,    \* what backup_existing_file returned ("unset" before)
    saveRet,      \* what save_ips returned ("unset" before)
    runRet,       \* what run returned ("unset" before)
    why,          \* the path on which the run ended ("running" before)
    hist,         \* what the earlier runs of the tool left behind
    input,        \* the text given to extract_ips_from_text on its own
    extracted     \* what it returned

vars == <<pc, exitCode, cfgFile, configRet, urls, max_workers, log_level,
          task, calls, result, all_ips, outFile, bakFile, out0, bak0,
          backupRet, saveRet, runRet, why, hist, input, extracted>>

\* what no step of a run changes
envVars == <<cfgFile, hist, input, extracted>>

\* what only the constructor sets
confVars == <<configRet, urls, max_workers, log_level>>

Tasks == 1..Len(urls)

\* mutant of PoolSize: one worker per url, max_workers ignored
PoolSize_per_url == Len(urls)

\* min(self.config['max_workers'], len(urls))
PoolSize == IF max_workers < Len(urls) THEN max_workers ELSE Len(urls)

Running == {i \in Tasks : task[i] = "running"}

Queued == {i \in Tasks : task[i] = "queued"}

Unsubmitted == {i \in Tasks : task[i] = "unsubmitted"}

SetMin(S) == CHOOSE x \in S : \A y \in S : x <= y

\* no earlier run
NoHist == [runs |-> 0, lastGood |-> NoFile, ioError |-> FALSE, cutWrite |-> FALSE]

\* the process starts: nothing is loaded yet
InitRun ==
    /\ pc = "INIT"
    /\ exitCode = -1
    /\ configRet = "unset"
    /\ urls = <<>>
    /\ max_workers = 0
    /\ log_level = "unset"
    /\ task = <<>>
    /\ calls = <<>>
    /\ result = <<>>
    /\ all_ips = {}
    /\ out0 = outFile
    /\ bak0 = bakFile
    /\ backupRet = "unset"
    /\ saveRet = "unset"
    /\ runRet = "unset"
    /\ why = "running"

Init ==
    /\ cfgFile \in ConfigFiles
    /\ outFile \in {NoFile, OldOutput}
    /\ bakFile \in {NoFile, OldBackup}
    /\ InitRun
    /\ hist = NoHist
    /\ input = <<>>
    /\ extracted = {}

\* main: tool = IPRefreshTool(): the configuration is loaded, then logging
\* is set up; an exception in the constructor is caught by main's
\* "except Exception"
Construct ==
    /\ pc = "INIT"
    /\ LET c == load_config(cfgFile)
       IN  /\ configRet' = c.ret
           /\ IF c.exc # NoExc
              THEN /\ pc' = "ABORTING"
                   /\ why' = "exception"
                   /\ UNCHANGED <<urls, max_workers, log_level, task, calls,
                                  result>>
              ELSE /\ urls' = c.config.urls
                   /\ max_workers' = c.config.max_workers
                   /\ log_level' = c.config.log_level
                   /\ task' = [i \in 1..Len(c.config.urls) |-> "unsubmitted"]
                   /\ calls' = [i \in 1..Len(c.config.urls) |-> 0]
                   /\ result' = [i \in 1..Len(c.config.urls) |-> NoResult]
                   /\ \E io \in SetupIO :
                        IF io = "ok" THEN pc' = "BACKUP" /\ why' = why
                        ELSE pc' = "ABORTING" /\ why' = "exception"
    /\ UNCHANGED <<exitCode, all_ips, outFile, bakFile, out0, bak0,
                   backupRet, saveRet, runRet, envVars>>

\* run: self.file_manager.backup_existing_file()
Backup ==
    /\ pc = "BACKUP"
    /\ \E io \in BackupIO :
         LET r == backup_existing_file(outFile, bakFile, io)
         IN  /\ outFile' = r.out
             /\ bakFile' = r.bak
             /\ IF r.exc = NoExc
                THEN /\ backupRet' = r.ret
                     /\ pc' = "FETCHING"
                     /\ UNCHANGED <<runRet, why>>
                ELSE /\ backupRet' = "raised"
                     /\ pc' = "FAILED"
                     /\ runRet' = "false"
                     /\ why' = "exception"
    /\ UNCHANGED <<exitCode, confVars, envVars, calls, task, result, all_ips,
                   out0, bak0, saveRet>>

\* fetch_all_ips: ThreadPoolExecutor(max_workers=0) raises ValueError, which
\* run catches
ExecutorError ==
    /\ pc = "FETCHING"
    /\ PoolSize < 1
    /\ pc' = "FAILED"
    /\ runRet' = "false"
    /\ why' = "exception"
    /\ UNCHANGED <<exitCode, confVars, envVars, calls, task, result, all_ips,
                   outFile, bakFile, out0, bak0, backupRet, saveRet>>

\* mutant of Submit: a url that stands earlier in the list is not submitted
\* a second time
Submit_once_per_url ==
    /\ pc = "FETCHING"
    /\ PoolSize >= 1
    /\ Unsubmitted # {}
    /\ LET i == SetMin(Unsubmitted)
       IN  task' = [task EXCEPT ![i] =
                      IF \E j \in 1..(i - 1) : urls[j] = urls[i]
                      THEN "collected" ELSE "queued"]
    /\ UNCHANGED <<pc, exitCode, confVars, envVars, calls, result, all_ips,
                   outFile, bakFile, out0, bak0, backupRet, saveRet, runRet,
                   why>>

\* fetch_all_ips: executor.submit(self.fetch_ips_from_url, url), in list order
Submit ==
    /\ pc = "FETCHING"
    /\ PoolSize >= 1
    /\ Unsubmitted # {}
    /\ task' = [task EXCEPT ![SetMin(Unsubmitted)] = "queued"]
    /\ UNCHANGED <<pc, exitCode, confVars, envVars, calls, result, all_ips, outFile,
                   bakFile, out0, bak0, backupRet, saveRet, runRet, why>>

\* a worker thread of the pool takes the next queued call
CanStart(i) ==
    /\ pc \in {"FETCHING", "ABORTING"}
    /\ Queued # {}
    /\ i = SetMin(Queued)
    /\ Cardinality(Running) < PoolSize

StartFetch(i) ==
    /\ CanStart(i)
    /\ task' = [task EXCEPT ![i] = "running"]
    /\ calls' = [calls EXCEPT ![i] = @ + 1]
    /\ UNCHANGED <<pc, exitCode, confVars, envVars, result, all_ips, outFile,
                   bakFile, out0, bak0, backupRet, saveRet, runRet, why>>

\* the call fetch_ips_from_url(url) ends in its worker thread
CanFinish(i) ==
    /\ pc \in {"FETCHING", "ABORTING"}
    /\ task[i] = "running"

\* mutant of FinishFetch: the worker adds its result to the accumulator itself
FinishFetch_writes_accumulator(i) ==
    /\ CanFinish(i)
    /\ task' = [task EXCEPT ![i] = "collected"]
    /\ result' = [result EXCEPT ![i] = FetchOf[urls[i]]]
    /\ all_ips' = all_ips \cup FetchOf[urls[i]].ips
    /\ UNCHANGED <<pc, exitCode, confVars, envVars, calls, outFile,
                   bakFile, out0, bak0, backupRet, saveRet, runRet, why>>

FinishFetch(i) ==
    /\ CanFinish(i)
    /\ task' = [task EXCEPT ![i] = "finished"]
    /\ result' = [result EXCEPT ![i] = FetchOf[urls[i]]]
    /\ UNCHANGED <<pc, exitCode, confVars, envVars, calls, all_ips, outFile,
                   bakFile, out0, bak0, backupRet, saveRet, runRet, why>>

\* mutant of merge: "all_ips = ips" instead of "all_ips.update(ips)"
merge_assign(acc, r) == IF r.raised THEN acc ELSE r.ips

\* the body of "for future in as_completed(future_to_url)"
merge(acc, r) == IF r.raised THEN acc ELSE acc \cup r.ips

Collect(i) ==
    /\ pc = "FETCHING"
    /\ Unsubmitted = {}
    /\ task[i] = "finished"
    /\ task' = [task EXCEPT ![i] = "collected"]
    /\ all_ips' = merge(all_ips, result[i])
    /\ UNCHANGED <<pc, exitCode, confVars, envVars, calls, result, outFile,
                   bakFile, out0, bak0, backupRet, saveRet, runRet, why>>

\* mutant of AfterFetch: run without the "if not all_ips" check
AfterFetch_unchecked(ips) == "WRITING"

\* fetch_all_ips returns; run: "if not all_ips"
AfterFetch(ips) == IF ips = {} THEN "EMPTY_RESULT" ELSE "WRITING"

\* mutant of FetchReturn: fetch_all_ips raises when it has nothing to return
FetchReturn_raise_on_empty ==
    /\ pc = "FETCHING"
    /\ PoolSize >= 1
    /\ \A i \in Tasks : task[i] = "collected"
    /\ IF all_ips = {}
       THEN pc' = "FAILED" /\ runRet' = "false" /\ why' = "exception"
       ELSE pc' = AfterFetch(all_ips) /\ UNCHANGED <<runRet, why>>
    /\ UNCHANGED <<exitCode, confVars, envVars, calls, task, result, all_ips,
                   outFile, bakFile, out0, bak0, backupRet, saveRet>>

\* mutant of FetchReturn: fetch_all_ips returns with the first result
FetchReturn_first_result ==
    /\ pc = "FETCHING"
    /\ PoolSize >= 1
    /\ \E i \in Tasks : task[i] = "collected"
    /\ pc' = AfterFetch(all_ips)
    /\ UNCHANGED <<exitCode, confVars, envVars, calls, task, result, all_ips,
                   outFile, bakFile, out0, bak0, backupRet, saveRet, runRet,
                   why>>

FetchReturn ==
    /\ pc = "FETCHING"
    /\ PoolSize >= 1
    /\ \A i \in Tasks : task[i] = "collected"
    /\ pc' = AfterFetch(all_ips)
    /\ UNCHANGED <<exitCode, confVars, envVars, calls, task, result, all_ips,
                   outFile, bakFile, out0, bak0, backupRet, saveRet, runRet,
                   why>>

\* mutant of EmptyResult: the fetch is tried again after an empty result
EmptyResult_retry ==
    /\ pc = "EMPTY_RESULT"
    /\ runRet = "unset"
    /\ pc' = "FETCHING"
    /\ runRet' = "retry"
    /\ task' = [i \in Tasks |-> "unsubmitted"]
    /\ UNCHANGED <<exitCode, confVars, envVars, calls, result, all_ips, outFile,
                   bakFile, out0, bak0, backupRet, saveRet, why>>

\* run: the error message and "return False"
EmptyResult ==
    /\ pc = "EMPTY_RESULT"
    /\ pc' = "FAILED"
    /\ runRet' = "false"
    /\ why' = "no_addresses"
    /\ UNCHANGED <<exitCode, confVars, envVars, calls, task, result, all_ips,
                   outFile, bakFile, out0, bak0, backupRet, saveRet>>

\* run: success = self.file_manager.save_ips(all_ips); return success
Save ==
    /\ pc = "WRITING"
    /\ \E r \in save_ips(all_ips, outFile) :
             /\ outFile' = r.file
             /\ IF r.exc # NoExc
                THEN /\ pc' = "ABORTING"
                     /\ why' = "interrupt"
                     /\ saveRet' = "raised"
                     /\ UNCHANGED runRet
                ELSE /\ saveRet' = IF r.ret THEN "true" ELSE "false"
                     /\ runRet' = saveRet'
                     /\ pc' = IF r.ret THEN "DONE" ELSE "FAILED"
                     /\ why' = IF r.ret THEN "success" ELSE "write_failure"
    /\ UNCHANGED <<exitCode, confVars, envVars, calls, task, result, all_ips,
                   bakFile, out0, bak0, backupRet>>

\* Ctrl-C in the main thread: KeyboardInterrupt is no Exception, so only
\* main catches it; inside the "with ThreadPoolExecutor" block the executor
\* first waits for the submitted calls
Interrupt ==
    /\ pc \in {"INIT", "BACKUP", "FETCHING", "EMPTY_RESULT", "WRITING",
               "DONE", "FAILED"}
    /\ pc' = "ABORTING"
    /\ why' = "interrupt"
    /\ UNCHANGED <<exitCode, confVars, envVars, calls, task, result, all_ips,
                   outFile, bakFile, out0, bak0, backupRet, saveRet, runRet>>

\* mutant of ExitStatus: exit(success), and exit(True) is exit code 1
ExitStatus_bool(success) == IF success THEN 1 ELSE 0

\* main: exit(0 if success else 1), or exit(1) in an except clause
ExitStatus(success) == IF success THEN 0 ELSE 1

Exit ==
    /\ \/ pc \in {"DONE", "FAILED"}
       \/ pc = "ABORTING" /\ Running = {} /\ Queued = {}
    /\ exitCode' = IF pc = "ABORTING" THEN 1 ELSE ExitStatus(runRet = "true")
    /\ pc' = "EXITED"
    /\ UNCHANGED <<confVars, envVars, calls, task, result, all_ips, outFile,
                   bakFile, out0, bak0, backupRet, saveRet, runRet, why>>

Next ==
    \/ Construct
    \/ Backup
    \/ ExecutorError
    \/ Submit
    \/ \E i \in Tasks : StartFetch(i)
    \/ \E i \in Tasks : FinishFetch(i)
    \/ \E i \in Tasks : Collect(i)
    \/ FetchReturn
    \/ EmptyResult
    \/ Save
    \/ Interrupt
    \/ Exit

Spec == Init /\ [][Next]_vars

(***************************************************************************)
(* The same run under the scheduling the code relies on: the main thread   *)
(* takes its next step, a free worker takes the next queued call, and      *)
(* every call of fetch_ips_from_url ends, by an answer or by its timeout.  *)
(* Nothing is assumed about the user's Ctrl-C.                             *)
(***************************************************************************)
Fairness ==
    /\ WF_vars(Construct)
    /\ WF_vars(Backup)
    /\ WF_vars(ExecutorError)
    /\ WF_vars(Submit)
    /\ WF_vars(\E i \in Tasks : StartFetch(i))
    /\ WF_vars(\E i \in Tasks : FinishFetch(i))
    /\ WF_vars(\E i \in Tasks : Collect(i))
    /\ WF_vars(FetchReturn)
    /\ WF_vars(EmptyResult)
    /\ WF_vars(Exit)
    \* WF_vars(Save), written out: save_ips always ends in one of its
    \* outcomes, so Save is enabled exactly while pc = "WRITING", and
    \* every Save step leaves that state
    /\ []<>(pc # "WRITING")

SpecLive == Spec /\ Fairness

(***************************************************************************)
(* The tool run several times in a row on the same output and backup path, *)
(* with a configuration the user may change between two runs               *)
(***************************************************************************)
\* number of runs in a row
MaxRuns == 3

\* the configurations used: one worker, and no source or a single one
RunConfigFiles ==
    {ConfigFile("object",
                [urls |-> u, max_workers |-> 1, log_level |-> "INFO"]) :
       u \in {<<>>, <<"s_a">>, <<"s_b">>, <<"s_timeout">>}}

\* in the current run a rename or a write met an I/O error, or the
\* existence check of the backup step raised
IoErrorNow ==
    \/ backupRet = "raised"
    \/ out0.exists /\ backupRet = "none"
    \/ saveRet = "false"

\* in the current run an interrupt cut save_ips short after it had opened
\* the output file
CutWriteNow == saveRet = "raised"

\* the file written by the most recent run whose save_ips returned True
LastGoodNow == IF saveRet = "true" THEN outFile ELSE hist.lastGood

\* main is started again after the process has exited; the files stay
Rerun ==
    /\ pc = "EXITED"
    /\ hist.runs + 1 < MaxRuns
    /\ hist' = [runs |-> hist.runs + 1,
                lastGood |-> LastGoodNow,
                ioError |-> hist.ioError \/ IoErrorNow,
                cutWrite |-> hist.cutWrite \/ CutWriteNow]
    /\ cfgFile' \in RunConfigFiles
    /\ pc' = "INIT"
    /\ exitCode' = -1
    /\ configRet' = "unset"
    /\ urls' = <<>>
    /\ max_workers' = 0
    /\ log_level' = "unset"
    /\ task' = <<>>
    /\ calls' = <<>>
    /\ result' = <<>>
    /\ all_ips' = {}
    /\ out0' = outFile
    /\ bak0' = bakFile
    /\ backupRet' = "unset"
    /\ saveRet' = "unset"
    /\ runRet' = "unset"
    /\ why' = "running"
    /\ UNCHANGED <<outFile, bakFile, input, extracted>>

InitRuns ==
    /\ cfgFile \in RunConfigFiles
    /\ outFile \in {NoFile, OldOutput}
    /\ bakFile \in {NoFile, OldBackup}
    /\ InitRun
    /\ hist = NoHist
    /\ input = <<>>
    /\ extracted = {}

NextRuns ==
    \/ Next
    \/ Rerun

SpecRuns == InitRuns /\ [][NextRuns]_vars

(***************************************************************************)
(* save_ips called on its own, on any non-empty set of addresses           *)
(***************************************************************************)
AddressPool ==
    { Dotted(<<10, 1, 1, 1>>), Dotted(<<2, 2, 2, 2>>), Dotted(<<2, 2, 2, 10>>),
      Dotted(<<1, 2, 3, 4>>), Dotted(<<8, 8, 8, 8>>), Dotted(<<9, 9, 9, 9>>),
      Dotted(<<100, 20, 3, 200>>) }

InitSave ==
    /\ pc = "WRITING"
    /\ exitCode = -1
    /\ cfgFile = ConfigFile("absent", <<>>)
    /\ configRet = "defaults"
    /\ urls = <<>>
    /\ max_workers = 1
    /\ log_level = "INFO"
    /\ task = <<>>
    /\ calls = <<>>
    /\ result = <<>>
    /\ hist = NoHist
    /\ input = <<>>
    /\ extracted = {}
    /\ all_ips \in (SUBSET AddressPool) \ {{}}
    /\ outFile \in {NoFile, OldOutput}
    /\ bakFile = NoFile
    /\ out0 = outFile
    /\ bak0 = bakFile
    /\ backupRet = "none"
    /\ saveRet = "unset"
    /\ runRet = "unset"
    /\ why = "running"

NextSave ==
    \/ Save
    \/ Exit

SpecSave == InitSave /\ [][NextSave]_vars

(***************************************************************************)
(* extract_ips_from_text called on its own, on texts put together from a   *)
(* dotted group, something in front of it and something behind it          *)
(***************************************************************************)
TextBefore ==
    { <<>>, <<" ">>, <<"a">>, <<".">>, <<"1">>, <<"1", ".">>, <<"x", ".">>,
      <<"1", "2", "3", "4", ".">> }

TextCore ==
    { Dotted(<<5, 6, 7, 8>>), Dotted(<<8, 8, 8, 8>>), Dotted(<<300, 1, 1, 1>>),
      Dotted(<<192, 168, 1, 1>>), Dotted(<<255, 255, 255, 255>>),
      Dotted(<<1, 2, 3, 40>>), <<"0">> \o Dotted(<<1, 2, 3, 4>>),
      <<"1", ".", "2", ".", "3">> }

TextAfter ==
    { <<>>, <<" ">>, <<"a">>, <<".">>, <<"9">>, <<".", "9">>, <<".", "x">> }

Texts ==
    {b \o c \o a : b \in TextBefore, c \in TextCore, a \in TextAfter}
      \cup {BodyJunk, BodyA, BodyMulticast}

InitExtract ==
    /\ pc = "EXTRACT"
    /\ input \in Texts
    /\ extracted = {}
    /\ exitCode = -1
    /\ cfgFile = ConfigFile("absent", <<>>)
    /\ configRet = "unset"
    /\ urls = <<>>
    /\ max_workers = 0
    /\ log_level = "unset"
    /\ task = <<>>
    /\ calls = <<>>
    /\ result = <<>>
    /\ all_ips = {}
    /\ outFile = NoFile
    /\ bakFile = NoFile
    /\ out0 = NoFile
    /\ bak0 = NoFile
    /\ backupRet = "unset"
    /\ saveRet = "unset"
    /\ runRet = "unset"
    /\ why = "running"
    /\ hist = NoHist

\* valid_ips = IPValidator.extract_ips_from_text(text)
Extract ==
    /\ pc = "EXTRACT"
    /\ extracted' = extract_ips_from_text(input)
    /\ pc' = "EXTRACTED"
    /\ UNCHANGED <<exitCode, cfgFile, confVars, task, calls, result, all_ips,
                   outFile, bakFile, out0, bak0, backupRet, saveRet, runRet,
                   why, hist, input>>

NextExtract == Extract

SpecExtract == InitExtract /\ [][NextExtract]_vars

(***************************************************************************)
(* Properties                                                              *)
(***************************************************************************)
AllCollected == Tasks # {} /\ \A i \in Tasks : task[i] = "collected"

\* fetch_all_ips has returned to run
FetchAllReturned == pc \in {"EMPTY_RESULT", "WRITING"}

\* the validator's result for the page of each source
PageAddresses ==
    [u \in Sources \cup EdgeSources |-> extract_ips_from_text(AnswerOf[u].body)]

\* the source does not deliver a page: the GET raises, the status is an
\* HTTP error status (4xx, 5xx), or reading the page raises
SourceFails(url) ==
    \/ AnswerOf[url].getExc # NoExc
    \/ AnswerOf[url].status >= 400
    \/ AnswerOf[url].textExc # NoExc

\* C1: the accumulator of fetch_all_ips is at every moment the union of the
\* result sets of the fetches collected so far, and when fetch_all_ips has
\* returned it is the union of the result sets of all configured sources, a
\* set fixed by the sources alone: every completion order gives the same set.
C1_UnionOfResults ==
    /\ all_ips = UNION {result[i].ips : i \in {j \in Tasks : task[j] = "collected"}}
    /\ FetchAllReturned =>
         /\ AllCollected
         /\ all_ips = UNION {FetchOf[urls[i]].ips : i \in Tasks}

\* fetch_all_ips has returned the union of two different non-empty results
C1_Witness ==
    /\ pc = "WRITING"
    /\ \E i, j \in Tasks :
         /\ result[i].ips # {} /\ result[j].ips # {}
         /\ result[i].ips # result[j].ips
         /\ all_ips = result[i].ips \cup result[j].ips
         /\ all_ips # result[i].ips /\ all_ips # result[j].ips

\* C2: failing sources do not disturb the others: when fetch_all_ips has
\* returned, every configured source was fetched to completion, no fetch
\* raised into the collector, and the aggregate is exactly the set of the
\* addresses in the pages of the sources that did not fail; with at least
\* one address the run goes on to write, and it exits with 0 unless the
\* write fails or the user interrupts.
C2_FailureIsolation ==
    /\ FetchAllReturned =>
         /\ AllCollected
         /\ \A i \in Tasks : ~result[i].raised
         /\ all_ips = UNION {PageAddresses[urls[i]] :
                               i \in {j \in Tasks : ~SourceFails(urls[j])}}
         /\ all_ips # {} => pc = "WRITING"
    /\ (pc = "EXITED" /\ AllCollected /\ all_ips # {}
          /\ why \notin {"write_failure", "interrupt"}) => exitCode = 0

\* a run with a failed and a succeeding source has exited with 0
C2_Witness ==
    /\ pc = "EXITED" /\ exitCode = 0
    /\ \E i, j \in Tasks :
         /\ SourceFails(urls[i])
         /\ ~SourceFails(urls[j])
         /\ all_ips = result[j].ips
         /\ Cardinality(all_ips) = 2

AllSourcesEmptyOrFail ==
    \A i \in Tasks :
        SourceFails(urls[i]) \/ PageAddresses[urls[i]] = {}

\* C3: in a run whose sources all fail or return nothing, save_ips is never
\* called, the output path keeps what the backup step left there (nothing
\* after a rename, the old file otherwise), the backup made by the rename
\* holds the previous output file, and the process exits with 1.
C3_EmptyResultKeepsFiles ==
    AllSourcesEmptyOrFail =>
        /\ saveRet = "unset"
        /\ pc \notin {"WRITING", "DONE"}
        /\ backupRet = "bak" => outFile = NoFile /\ bakFile = out0
        /\ backupRet # "bak" => outFile = out0 /\ bakFile = bak0
        /\ pc = "EXITED" => exitCode = 1

\* a run with an empty page and a failed source ended after a backup
C3_Witness ==
    /\ pc = "EXITED" /\ why = "no_addresses"
    /\ backupRet = "bak" /\ bakFile = OldOutput /\ bak0 = OldBackup
    /\ \E i, j \in Tasks :
         /\ SourceFails(urls[i])
         /\ ~SourceFails(urls[j])
\* C4 (as claimed): after a write failure in save_ips the process exits with
\* 1 and the output file that existed before the run is intact, at the
\* backup path or at the output path, whatever the backup step did.
C4_WriteFailureKeepsOldOutput ==
    saveRet = "false" =>
        /\ pc = "EXITED" => exitCode = 1
        /\ out0.exists => (bakFile = out0 \/ outFile = out0)

\* before exit() some step of main, of run or of a worker is always possible,
\* an interrupt aside: the process neither hangs nor dies without exit()
C5_NotStuck ==
    CASE pc = "INIT" -> ENABLED Construct
      [] pc = "BACKUP" -> ENABLED Backup
      [] pc = "FETCHING" ->
           \/ ENABLED ExecutorError \/ ENABLED Submit \/ ENABLED FetchReturn
           \/ \E i \in Tasks : ENABLED StartFetch(i) \/ CanFinish(i)
                                  \/ ENABLED Collect(i)
      [] pc = "EMPTY_RESULT" -> ENABLED EmptyResult
      [] pc = "WRITING" -> save_ips(all_ips, outFile) # {}
      [] pc \in {"DONE", "FAILED"} -> ENABLED Exit
      [] pc = "ABORTING" ->
           \/ ENABLED Exit
           \/ \E i \in Tasks : ENABLED StartFetch(i) \/ CanFinish(i)
      [] pc = "EXITED" -> TRUE

\* C5: the process always ends by exit() with 0 or 1, never otherwise; it
\* exits with 0 exactly on the path where save_ips wrote the whole non-empty
\* set and no interrupt followed, and with 1 on every other path: no
\* addresses, write failure, an exception in the constructor or in run, or
\* an interrupt.
C5_ExitCode ==
    /\ exitCode \in {-1, 0, 1}
    /\ pc = "EXITED" <=> exitCode # -1
    /\ C5_NotStuck
    /\ pc = "EXITED" =>
         /\ exitCode = 0 <=> why = "success"
         /\ exitCode = 1 <=> why \in {"no_addresses", "write_failure",
                                      "exception", "interrupt"}
    /\ why = "success" =>
         /\ saveRet = "true" /\ runRet = "true"
         /\ all_ips # {}
         /\ outFile.exists
         /\ {FileLines(outFile.data)[k] : k \in 1..Len(FileLines(outFile.data))}
              = all_ips
    /\ why \in {"no_addresses", "write_failure", "exception", "interrupt"}
         => runRet # "true" \/ why = "interrupt"

\* the process has ended with 0 after writing three addresses
C5_Witness ==
    /\ pc = "EXITED" /\ exitCode = 0
    /\ Cardinality(all_ips) = 3
    /\ Len(FileLines(outFile.data)) = 3

Done(i) == task[i] \in {"finished", "collected"}

\* C6 (as claimed): a finished fetch never raised; it returned the empty set
\* when the GET raised, the status was not 2xx or the extraction raised, and
\* the validator's result for the body otherwise.
C6_NonSuccessGivesEmpty ==
    \A i \in Tasks : Done(i) =>
        LET r == AnswerOf[urls[i]]
            failed == \/ r.getExc # NoExc
                      \/ r.status < 200 \/ r.status > 299
                      \/ r.textExc # NoExc
        IN  /\ ~result[i].raised
            /\ failed => result[i].ips = {}
            /\ ~failed => result[i].ips = PageAddresses[urls[i]]

\* C6 (amended): a finished fetch never raised; it returned the empty set
\* when the GET raised, the status was an HTTP error status (400..599) or
\* the extraction raised, and the validator's result for the body otherwise,
\* also for a final response whose status is neither 2xx nor an error.
C6_FetchNeverRaises ==
    \A i \in Tasks : Done(i) =>
        LET r == AnswerOf[urls[i]]
            failed == \/ r.getExc # NoExc
                      \/ (400 <= r.status /\ r.status <= 599)
                      \/ r.textExc # NoExc
        IN  /\ ~result[i].raised
            /\ failed => result[i].ips = {} /\ result[i].handler # 0
            /\ ~failed => /\ result[i].ips = PageAddresses[urls[i]]
                          /\ result[i].handler = 0

\* a fetch whose extraction raised has ended with the empty set
C6_Witness ==
    \E i \in Tasks :
        /\ Done(i)
        /\ AnswerOf[urls[i]].textExc # NoExc
        /\ PageAddresses[urls[i]] # {}
        /\ result[i].ips = {}
        /\ ~result[i].raised

\* C7: the fetches in flight never exceed max_workers nor the number of
\* sources; every fetch in flight can finish whatever the others do, and
\* while a slot is free the next queued fetch can start.
C7_BoundedInFlight ==
    /\ Cardinality(Running) <= max_workers
    /\ Cardinality(Running) <= Len(urls)
    /\ \A i \in Running : CanFinish(i)
    /\ (pc = "FETCHING" /\ Queued # {} /\ Cardinality(Running) < max_workers)
         => ENABLED StartFetch(SetMin(Queued))

\* the pool is full, a fetch is in flight and another waits in the queue
C7_Witness ==
    /\ pc = "FETCHING"
    /\ Cardinality(Running) = max_workers
    /\ Queued # {}

C8_Allowed ==
    { <<"INIT", "BACKUP">>, <<"BACKUP", "FETCHING">>,
      <<"FETCHING", "EMPTY_RESULT">>, <<"FETCHING", "WRITING">>,
      <<"EMPTY_RESULT", "FAILED">>,
      <<"WRITING", "DONE">>, <<"WRITING", "FAILED">>,
      \* an exception caught by run ends the pass early
      <<"BACKUP", "FAILED">>, <<"FETCHING", "FAILED">>,
      \* the process exits
      <<"DONE", "EXITED">>, <<"FAILED", "EXITED">>, <<"ABORTING", "EXITED">> }
      \* an exception or interrupt caught by main
      \cup {<<p, "ABORTING">> : p \in {"INIT", "BACKUP", "FETCHING",
                                       "EMPTY_RESULT", "WRITING", "DONE",
                                       "FAILED"}}

C8_Rank(p) ==
    CASE p = "INIT" -> 0
      [] p = "BACKUP" -> 1
      [] p = "FETCHING" -> 2
      [] p \in {"EMPTY_RESULT", "WRITING"} -> 3
      [] p \in {"DONE", "FAILED"} -> 4
      [] p = "ABORTING" -> 5
      [] p = "EXITED" -> 6

\* C8: a run is one pass: the state only moves forward along INIT, BACKUP,
\* FETCHING, EMPTY_RESULT or WRITING, DONE or FAILED (an exception ends the
\* pass early in FAILED, an abort caught by main in exit code 1); no fetch
\* is submitted before the backup step is over, save_ips is called only
\* after fetch_all_ips returned a non-empty set, EMPTY_RESULT is left only
\* for FAILED, and no state is entered twice.
C8_SinglePass ==
    [][ /\ pc' # pc => /\ <<pc, pc'>> \in C8_Allowed
                       /\ C8_Rank(pc') > C8_Rank(pc)
        /\ pc' \in {"INIT", "BACKUP"}
             => \A i \in DOMAIN task' : task'[i] = "unsubmitted"
        /\ (pc' = "WRITING" \/ saveRet' # "unset")
             => /\ \A i \in DOMAIN task' : task'[i] = "collected"
                /\ all_ips' # {}
        /\ (task' # task /\ pc # "INIT") => pc' = pc
      ]_vars

\* a run has passed through BACKUP, FETCHING and WRITING into DONE
C8_Witness ==
    /\ pc = "DONE"
    /\ backupRet = "bak"
    /\ AllCollected
    /\ saveRet = "true"

\* the ranges C9 names
C9_NonGlobal(o) ==
    \/ o[1] = 10
    \/ o[1] = 172 /\ o[2] \in 16..31
    \/ o[1] = 192 /\ o[2] = 168
    \/ o[1] = 127
    \/ o[1] = 169 /\ o[2] = 254
    \/ o[1] \in 224..239
    \/ o = <<0, 0, 0, 0>>

\* C9 (as claimed): the addresses a run has written are pairwise different
\* and none lies in 10.0.0.0/8, 172.16.0.0/12, 192.168.0.0/16, 127.0.0.0/8,
\* 169.254.0.0/16 or 224.0.0.0/4 or is 0.0.0.0.
C9_WrittenSetGlobal ==
    saveRet = "true" =>
        LET lines == FileLines(outFile.data)
        IN  /\ \A j, k \in 1..Len(lines) :
                 j # k => Octets(lines[j]) # Octets(lines[k])
            /\ \A k \in 1..Len(lines) : ~C9_NonGlobal(Octets(lines[k]))

\* the order of the 4-tuples of octets, written out
C10_NumericLess(a, b) ==
    LET x == Octets(a)
        y == Octets(b)
    IN  \/ x[1] < y[1]
        \/ x[1] = y[1] /\ x[2] < y[2]
        \/ x[1] = y[1] /\ x[2] = y[2] /\ x[3] < y[3]
        \/ x[1] = y[1] /\ x[2] = y[2] /\ x[3] = y[3] /\ x[4] < y[4]

C10_Listing(file, ips) ==
    LET parts == Split(file.data, NL)
        lines == SubSeq(parts, 1, Len(parts) - 1)
    IN  /\ file.exists
        /\ parts[Len(parts)] = <<>>
        /\ Len(lines) = Cardinality(ips)
        /\ {lines[k] : k \in 1..Len(lines)} = ips
        /\ \A k \in 1..(Len(lines) - 1) : C10_NumericLess(lines[k], lines[k + 1])

\* C10: for a non-empty set save_ips, when no I/O error or interrupt stops
\* it, returns True and leaves a file that holds exactly the addresses of the
\* set, one per line, each line ended by a newline, in strictly ascending
\* order of the 4-tuples of octets, with as many lines as the set has members.
C10_SaveWritesSorted ==
    /\ (pc = "WRITING" /\ all_ips # {}) =>
         /\ \E r \in save_ips(all_ips, outFile) : r.io = "ok"
         /\ \A r \in save_ips(all_ips, outFile) :
              /\ r.io = "ok" => r.ret
              /\ r.ret => C10_Listing(r.file, all_ips)
    /\ saveRet = "true" => C10_Listing(outFile, all_ips)

\* save_ips has written 2.2.2.2, 2.2.2.10, 10.1.1.1 in this order
C10_Witness ==
    /\ saveRet = "true"
    /\ all_ips = {Dotted(<<10, 1, 1, 1>>), Dotted(<<2, 2, 2, 2>>),
                  Dotted(<<2, 2, 2, 10>>)}
    /\ FileLines(outFile.data) = <<Dotted(<<2, 2, 2, 2>>),
                                   Dotted(<<2, 2, 2, 10>>),
                                   Dotted(<<10, 1, 1, 1>>)>>

\* C11 (as claimed): loading the configuration never aborts the run: with no
\* configuration file, and with one that is unreadable, undecodable, not
\* valid JSON or valid JSON that is no object, _load_config returns the
\* defaults, no exception leaves it, and the run works with the defaults.
C11_ConfigNeverAborts ==
    /\ configRet # "raised"
    /\ (configRet # "unset" /\ cfgFile.kind \in {"absent"} \cup BrokenKinds) =>
         /\ configRet = "defaults"
         /\ urls = default_config.urls
         /\ max_workers = default_config.max_workers
         /\ log_level = default_config.log_level

\* the rename in backup_existing_file failed in this run
RenameFailed == out0.exists /\ backupRet = "none"

\* C12: a failed rename raises nothing out of backup_existing_file, which
\* returns None and leaves both files alone; the run goes on to FETCHING
\* and, with addresses, to WRITING, and the only exception it can then meet
\* is the one of an empty source list.  Without an output file the backup
\* does nothing and returns None.  After a successful rename the previous
\* output file is at the backup path, in place of any earlier backup, and
\* no file is at the output path until save_ips writes one.
C12_BackupNonFatal ==
    /\ pc = "BACKUP" =>
         \A io \in {"ok", "rename_oserror"} :
            LET r == backup_existing_file(outFile, bakFile, io)
            IN  /\ r.exc = NoExc
                /\ (io = "rename_oserror" \/ ~outFile.exists) =>
                     r.ret = "none" /\ r.out = outFile /\ r.bak = bakFile
                /\ (io = "ok" /\ outFile.exists) =>
                     r.ret = "bak" /\ r.out = NoFile /\ r.bak = outFile
    /\ backupRet = "none" =>
         /\ pc \notin {"INIT", "BACKUP"}
         /\ bakFile = bak0
         /\ pc \in {"FETCHING", "EMPTY_RESULT", "WRITING"} => outFile = out0
         /\ why = "exception" => PoolSize < 1
         /\ (FetchAllReturned /\ all_ips # {}) => pc = "WRITING"
    /\ backupRet = "bak" =>
         /\ out0.exists
         /\ bakFile = out0
         /\ pc \in {"FETCHING", "EMPTY_RESULT", "WRITING"} => outFile = NoFile

\* a run whose rename failed has written the new list and ended in DONE,
\* the earlier backup still in place
C12_Witness ==
    /\ pc = "DONE"
    /\ RenameFailed
    /\ saveRet = "true"
    /\ bak0 = OldBackup /\ bakFile = OldBackup
    /\ outFile # out0

AllSourcesFail == \A i \in Tasks : SourceFails(urls[i])

\* run has called fetch_all_ips: the backup step returned
FetchAllCalled == backupRet \in {"none", "bak"}

\* what C13 says of a run whose sources all fail: fetch_all_ips returns the
\* empty set and raises nothing, no fetch raises into the collector, save_ips
\* is not called, and run ends on its "no addresses" branch with False, so
\* that the process exits with 1
C13_CleanFailure ==
    /\ saveRet = "unset"
    /\ pc \notin {"WRITING", "DONE"}
    /\ why \notin {"exception", "success", "write_failure"}
    /\ FetchAllReturned =>
         /\ pc = "EMPTY_RESULT" /\ all_ips = {}
         /\ \A i \in Tasks : task[i] = "collected" /\ ~result[i].raised
    /\ pc = "FAILED" => why = "no_addresses" /\ runRet = "false"
    /\ pc = "EXITED" => exitCode = 1

\* C13 (as claimed): for every list of sources and every max_workers >= 1,
\* a run whose sources all fail ends as C13_CleanFailure says.
C13_AllFailAnyList ==
    (FetchAllCalled /\ max_workers >= 1 /\ AllSourcesFail) => C13_CleanFailure

\* C13 (amended): the same for every non-empty list of sources; with the
\* empty list fetch_all_ips raises (the pool refuses max_workers = 0) and run
\* ends on its "except Exception" branch, again with False and exit code 1.
C13_AllFailNonEmptyList ==
    /\ (FetchAllCalled /\ max_workers >= 1 /\ AllSourcesFail /\ urls # <<>>)
         => C13_CleanFailure
    /\ (FetchAllCalled /\ urls = <<>>) =>
         /\ pc \notin {"EMPTY_RESULT", "WRITING", "DONE"}
         /\ pc = "FAILED" => why = "exception" /\ runRet = "false"
         /\ pc = "EXITED" => exitCode = 1

\* a run over two sources that fail in different ways has reported "no
\* addresses" and exited with 1
C13_Witness ==
    /\ pc = "EXITED" /\ exitCode = 1 /\ why = "no_addresses"
    /\ Len(urls) >= 2
    /\ urls[1] # urls[2]
    /\ AllSourcesFail
    /\ \A i \in Tasks : calls[i] = 1

\* ip stands in the text t at position p
OccursAt(t, ip, p) ==
    /\ p + Len(ip) - 1 <= Len(t)
    /\ SubSeq(t, p, p + Len(ip) - 1) = ip

\* the n characters of t from position p on are a whole token: no digit
\* touches them and no further dot-separated group of digits is attached
\* in front of them or behind them
MaximalTokenAt(t, p, n) ==
    /\ ~(p > 1 /\ IsDigit(t[p - 1]))
    /\ ~(p > 2 /\ t[p - 1] = "." /\ IsDigit(t[p - 2]))
    /\ ~(p + n <= Len(t) /\ IsDigit(t[p + n]))
    /\ ~(p + n + 1 <= Len(t) /\ t[p + n] = "." /\ IsDigit(t[p + n + 1]))

\* C14 (as claimed): every address extract_ips_from_text returns stands in
\* the text as a maximal token, not inside a longer run of digits or of
\* dot-separated groups; "1234.5.6.7.8" gives no address, and the text
\* "300.1.1.1 192.168.1.1" gives none.
C14_MaximalToken ==
    pc = "EXTRACTED" =>
        /\ \A ip \in extracted :
              \E p \in 1..Len(input) :
                  OccursAt(input, ip, p) /\ MaximalTokenAt(input, p, Len(ip))
        /\ input = <<"1", "2", "3", "4", ".">> \o Dotted(<<5, 6, 7, 8>>)
             => extracted = {}
        /\ input = BodyJunk => extracted = {}

\* a step of a worker thread: a call starts or ends
WorkerStep ==
    \E i \in Tasks :
        /\ task'[i] # task[i]
        /\ task'[i] \in {"running", "finished"}

\* a step in which the collector merges the result of the finished call i
CollectorStep(i) ==
    /\ pc = "FETCHING" /\ pc' = "FETCHING"
    /\ task[i] = "finished"
    /\ task' = [task EXCEPT ![i] = "collected"]
    /\ result' = result
    /\ all_ips' = all_ips \cup result[i].ips

\* C15: within a run the accumulator is written by the collector alone: it
\* changes only in a step that marks exactly one finished call as collected
\* and adds exactly that call's result; no step of a worker changes it, a
\* call leaves "running" only by finishing, a result once stored is not
\* changed, the accumulator never shrinks, and it holds the result of every
\* collected call.
C15_SingleCollector ==
    /\ [](\A i \in Tasks : task[i] = "collected" => result[i].ips \subseteq all_ips)
    /\ [][ /\ all_ips' # all_ips => \E i \in Tasks : CollectorStep(i)
           /\ all_ips \subseteq all_ips'
           /\ WorkerStep => all_ips' = all_ips
           /\ \A i \in Tasks :
                /\ (task[i] = "running" /\ task'[i] # "running")
                     => task'[i] = "finished"
                /\ (task[i] \in {"finished", "collected"})
                     => result'[i] = result[i]
                /\ (task'[i] = "collected" /\ task[i] # "collected")
                     => CollectorStep(i)
         ]_vars

\* one result is merged while another call is still running in its worker
C15_Witness ==
    /\ pc = "FETCHING"
    /\ \E i, j \in Tasks :
         /\ task[i] = "collected" /\ task[j] = "running"
         /\ result[i].ips # {}
         /\ all_ips = result[i].ips

\* C16: fetch_ips_from_url is called at most once for every entry of the
\* source list, whatever the call returns; an entry was called for exactly
\* when its future is running, finished or collected; and when fetch_all_ips
\* has returned it was called exactly once for every entry, also for a url
\* that stands in the list twice.
C16_EachEntryOnce ==
    /\ DOMAIN calls = Tasks
    /\ \A i \in Tasks :
         /\ calls[i] \in {0, 1}
         /\ calls[i] = 1 <=> task[i] \in {"running", "finished", "collected"}
    /\ (FetchAllReturned \/ why \in {"no_addresses", "success", "write_failure"})
         => \A i \in Tasks : calls[i] = 1

\* a list that names the same url twice: both entries were fetched, once
\* each, and the fetch of a failed source was not repeated
C16_Witness ==
    /\ pc \in {"WRITING", "EMPTY_RESULT"}
    /\ Len(urls) >= 2
    /\ urls[1] = urls[2]
    /\ calls[1] = 1 /\ calls[2] = 1
    /\ SourceFails(urls[1])

\* run is past fetch_all_ips: it reports the empty result or saves
PastFetchAll ==
    \/ pc \in {"EMPTY_RESULT", "WRITING", "DONE"}
    \/ pc = "FAILED" /\ why \in {"no_addresses", "write_failure"}
    \/ saveRet # "unset"

\* C17: provided every call of fetch_ips_from_url ends, a run that has begun
\* (run is at its backup step) reaches DONE or FAILED unless the user
\* interrupts it, and the process always exits.  No call is cancelled: a
\* queued call only starts, a running call only finishes.  When run reports
\* the empty result or saves, every submitted call has finished and was
\* collected, and at exit no call is queued or running.
C17_RunTerminates ==
    /\ [](PastFetchAll => \A i \in Tasks : task[i] = "collected")
    /\ [](pc = "EXITED" => Running = {} /\ Queued = {})
    /\ [][\A i \in Tasks :
            /\ task[i] = "queued" => task'[i] \in {"queued", "running"}
            /\ task[i] = "running" => task'[i] \in {"running", "finished"}]_vars
    /\ (pc = "BACKUP") ~> (pc \in {"DONE", "FAILED"} \/ why = "interrupt")
    /\ <>(pc = "EXITED")

\* a run over two sources, one of which timed out, has ended in FAILED with
\* every call collected
C17_Witness ==
    /\ pc = "FAILED" /\ why = "no_addresses"
    /\ Len(urls) >= 2
    /\ \A i \in Tasks : task[i] = "collected" /\ calls[i] = 1
    /\ \E i \in Tasks : result[i].handler = 1
    /\ \E i \in Tasks : result[i].handler = 0

\* the list written by the most recent successful run is still there
LastGoodKept == outFile = LastGoodNow \/ bakFile = LastGoodNow

\* C18: over any sequence of runs without an I/O error in a rename or a
\* write, once a run has succeeded the complete list of the most recent
\* successful run is at the output path or at the backup path.
C18_LastGoodListKept ==
    (LastGoodNow.exists /\ ~hist.ioError /\ ~IoErrorNow) => LastGoodKept

\* the part that holds: as long as, besides, no interrupt has cut a write
\* short, the list is kept; failed runs and runs interrupted elsewhere,
\* however many in a row, do not remove it
LastGoodListKeptUncut ==
    (LastGoodNow.exists /\ ~hist.ioError /\ ~IoErrorNow
       /\ ~hist.cutWrite /\ ~CutWriteNow) => LastGoodKept

\* after a successful run two runs in a row have failed for want of
\* addresses, and the list is still at the backup path
KeptAfterTwoFailedRuns ==
    /\ hist.runs >= 2
    /\ hist.lastGood.exists
    /\ ~hist.ioError /\ ~hist.cutWrite
    /\ pc = "EXITED" /\ why = "no_addresses"
    /\ ~out0.exists /\ bak0 = hist.lastGood
    /\ ~outFile.exists /\ bakFile = hist.lastGood

\* the logging call that starts every attempt
StartCall == LogCall("INFO", "start", -1)

\* r is the outcome call that belongs to the result f of fetching answer a:
\* success with the number of addresses returned, or one failure whose
\* category is that of an except clause catching what the attempt raised
IsOutcomeOf(c, f, a) ==
    IF FetchTryRaises(a) = NoExc
    THEN c = LogCall("INFO", "success", Cardinality(f.ips))
    ELSE \E h \in 1..Len(FetchHandlers) :
            /\ Catches(FetchHandlers[h], FetchTryRaises(a))
            /\ c = LogCall("ERROR", HandlerMsg[h], -1)

====
